---- MODULE Spec2Model ----
(***************************************************************************)
(* State-machine model of the d21_voting program                           *)
(* (program-Tarat0r/anchor_project/d21_voting): the three instructions     *)
(* initialize_poll, add_option and cast_vote over the program's accounts.  *)
(*                                                                         *)
(* Every instruction is one transaction: its accounts are resolved and     *)
(* validated (the #[derive(Accounts)] struct), then its handler runs on     *)
(* the loaded accounts, and the accounts are written back only when the    *)
(* handler returns Ok; an Err discards every write of the transaction,     *)
(* account creations included.  Transactions that touch the same account   *)
(* are executed one after the other, so an interleaving of calls is an     *)
(* order of the actions below.                                             *)
(*                                                                         *)
(* Abstractions: a Pubkey is a name, a program-derived address is the      *)
(* tuple of its seeds, the SHA-256 of a byte string is a collision-free    *)
(* tag around that string, a title or description is its byte length,      *)
(* and payers always hold enough lamports.                                 *)
(*                                                                         *)
(* Account validation follows the order of the generated try_accounts:    *)
(* the accounts without `init` are loaded, the `init` and init_if_needed   *)
(* accounts are created in the order of their fields, and the constraints  *)
(* of the loaded accounts are checked last.  `init` of an address that     *)
(* holds an account fails with the system program's AccountAlreadyInUse.   *)
(*                                                                         *)
(* Polls are created by one authority under one valid poll id, so a run    *)
(* holds at most one poll; both signers call add_option and cast_vote.     *)
(*                                                                         *)
(* The Calculator of task2 (task2-Tarat0r/src/calculator.rs) is modelled   *)
(* beside it: its history and one action per method.  An i64 is written    *)
(* hi * 2^63 + lo with small hi and lo, so that the sums, differences and  *)
(* products of numbers at both ends of the range are computed exactly.     *)
(***************************************************************************)
EXTENDS Integers, Sequences, FiniteSets, TLC

----------------------------------------------------------------------------
(* Bounds of the model *)

MaxTime == 3
MaxCredits == 2
MaxHistory == 2

----------------------------------------------------------------------------
(* Program constants and integer widths *)

MAX_TITLE == 64
MAX_DESC == 256
MAX_LABEL == 64
U8Max == 255
U16Max == 65535
\* plus_votes and minus_votes are u32; TLC's integers end at 2^31 - 1, so the
\* overflow check of a tally is placed there (no run of the model comes near)
TallyMax == 2147483647

----------------------------------------------------------------------------
(* Keys and addresses *)

Signers == {"k1", "k2"}
PollAuthorities == {"k1"}
DefaultPubkey == "default"

\* seeds = [b"poll", authority, poll_id]
PollPda(authority, poll_id) == <<authority, poll_id>>
DefaultPda == <<DefaultPubkey, 0>>
\* seeds = [b"option", poll, index]
OptionPda(poll, index) == <<poll, index>>
\* seeds = [b"option_label", poll, label_seed]
LabelGuardPda(poll, label_seed) == <<poll, label_seed>>
\* seeds = [b"voter", poll, voter_authority]
VoterPda(poll, voter_authority) == <<poll, voter_authority>>
\* seeds = [b"receipt", poll, index, voter_authority]
ReceiptPda(poll, index, voter_authority) == <<poll, index, voter_authority>>

----------------------------------------------------------------------------
(* Strings: a label is a sequence of one-character strings *)

IsWhitespace(c) == c = " "

to_lowercase_char(c) ==
    CASE c = "A" -> "a"
      [] c = "B" -> "b"
      [] c = "C" -> "c"
      [] OTHER -> c

to_lowercase(s) == [i \in 1..Len(s) |-> to_lowercase_char(s[i])]

RECURSIVE trim_start(_)
trim_start(s) ==
    IF s = <<>> THEN s
    ELSE IF IsWhitespace(Head(s)) THEN trim_start(Tail(s)) ELSE s

RECURSIVE trim_end(_)
trim_end(s) ==
    IF s = <<>> THEN s
    ELSE IF IsWhitespace(s[Len(s)]) THEN trim_end(SubSeq(s, 1, Len(s) - 1)) ELSE s

trim(s) == trim_end(trim_start(s))

\* hash::hash(bytes).to_bytes(), collision-free
Hash(bytes) == <<"sha256", bytes>>

Canonical(label) == to_lowercase(trim(label))

----------------------------------------------------------------------------
(* Accounts *)

\* now: Clock::get()?.unix_timestamp; polls .. receipts: the accounts of the
\* program, by address; history: Calculator::history of task2
VARIABLES now, polls, options, guards, voters, receipts, history

vars == <<now, polls, options, guards, voters, receipts, history>>
store == <<polls, options, guards, voters, receipts>>

\* a freshly created account is zero-filled
ZeroLabelGuard == [poll |-> DefaultPda, label_hash |-> <<>>]
ZeroVoter == [poll |-> DefaultPda, voter |-> DefaultPubkey, used_plus |-> 0, used_minus |-> 0]
ZeroReceipt == [poll |-> DefaultPda, voter |-> DefaultPubkey, option_index |-> 0, sentiment |-> 0]

Put(f, k, v) == [x \in DOMAIN f \cup {k} |-> IF x = k THEN v ELSE f[x]]

Init ==
    /\ now = 0
    /\ polls = <<>>
    /\ options = <<>>
    /\ guards = <<>>
    /\ voters = <<>>
    /\ receipts = <<>>
    /\ history = <<>>

----------------------------------------------------------------------------
(* initialize_poll *)

from_config(cfg, authority) ==
    [authority |-> authority,
     poll_id |-> cfg.poll_id,
     title |-> cfg.title,
     description |-> cfg.description,
     plus_credits |-> cfg.plus_credits,
     minus_credits |-> cfg.minus_credits,
     start_ts |-> cfg.start_ts,
     end_ts |-> cfg.end_ts,
     options_count |-> 0,
     ended |-> FALSE]

\* the poll account taken as it is when it exists (init_if_needed)
InitializePoll_if_needed(authority, cfg) == "Ok"

\* account validation: `init` of the poll at its derived address
InitializePoll(authority, cfg) ==
    IF PollPda(authority, cfg.poll_id) \in DOMAIN polls
    THEN "AccountAlreadyInUse"
    ELSE "Ok"

\* a start at the current second refused
start_not_in_past_strict(cfg, clock) == cfg.start_ts > clock

\* line 13
start_not_in_past(cfg, clock) == cfg.start_ts >= clock

initialize_poll_handler(cfg, authority, clock) ==
    IF ~(cfg.poll_id # 0) THEN [err |-> "InvalidPollId"]
    ELSE IF ~(cfg.title <= MAX_TITLE) THEN [err |-> "TitleTooLong"]
    ELSE IF ~(cfg.description <= MAX_DESC) THEN [err |-> "DescriptionTooLong"]
    ELSE IF ~(cfg.plus_credits > 0) THEN [err |-> "PlusCreditIsZero"]
    ELSE IF ~(cfg.end_ts > cfg.start_ts) THEN [err |-> "InvalidTimeWindow"]
    ELSE IF ~start_not_in_past(cfg, clock) THEN [err |-> "InvalidTimeWindow"]
    ELSE [err |-> "Ok", poll |-> from_config(cfg, authority)]

initialize_poll_result(authority, cfg) ==
    IF InitializePoll(authority, cfg) # "Ok"
    THEN [err |-> InitializePoll(authority, cfg)]
    ELSE initialize_poll_handler(cfg, authority, now)

\* configurations offered to initialize_poll: small and large budgets, a
\* window that opens at second 0 or 1 and ends at second 1 or 2, and one
\* configuration with the invalid poll id 0
PollConfigs ==
    [poll_id : {1},
     title : {MAX_TITLE},
     description : {MAX_DESC},
     plus_credits : {1, MaxCredits},
     minus_credits : {0, 1},
     start_ts : {0, 1},
     end_ts : {1, 2}]
    \cup
    [poll_id : {0},
     title : {MAX_TITLE},
     description : {MAX_DESC},
     plus_credits : {MaxCredits},
     minus_credits : {1},
     start_ts : {1},
     end_ts : {2}]

\* the accounts after the transaction: written back when the handler
\* returned Ok, untouched otherwise
initialize_poll_commit(r, authority, cfg) ==
    IF r.err = "Ok"
    THEN Put(polls, PollPda(authority, cfg.poll_id), r.poll)
    ELSE polls

initialize_poll(authority, cfg) ==
    /\ polls' = initialize_poll_commit(initialize_poll_result(authority, cfg), authority, cfg)
    /\ UNCHANGED <<now, options, guards, voters, receipts, history>>

----------------------------------------------------------------------------
(* add_option *)

\* the constraint on the caller left out
AddOption_any_signer(authority, pollKey, index, label_seed) ==
    IF pollKey \notin DOMAIN polls THEN [err |-> "AccountNotInitialized"]
    ELSE IF OptionPda(pollKey, index) \in DOMAIN options THEN [err |-> "AccountAlreadyInUse"]
    ELSE IF ~(~polls[pollKey].ended) THEN [err |-> "VotingClosed"]
    ELSE [err |-> "Ok",
          poll |-> polls[pollKey],
          label_guard |-> IF LabelGuardPda(pollKey, label_seed) \in DOMAIN guards
                          THEN guards[LabelGuardPda(pollKey, label_seed)]
                          ELSE ZeroLabelGuard]

\* option_node taken as it is when it exists (init_if_needed)
AddOption_option_if_needed(authority, pollKey, index, label_seed) ==
    IF pollKey \notin DOMAIN polls THEN [err |-> "AccountNotInitialized"]
    ELSE IF ~(polls[pollKey].authority = authority) THEN [err |-> "Unauthorized"]
    ELSE IF ~(~polls[pollKey].ended) THEN [err |-> "VotingClosed"]
    ELSE [err |-> "Ok",
          poll |-> polls[pollKey],
          label_guard |-> IF LabelGuardPda(pollKey, label_seed) \in DOMAIN guards
                          THEN guards[LabelGuardPda(pollKey, label_seed)]
                          ELSE ZeroLabelGuard]

\* account validation: the poll is loaded, label_guard is created when
\* absent (init_if_needed), option_node is created (init), then the
\* constraints of the poll are checked
AddOption(authority, pollKey, index, label_seed) ==
    IF pollKey \notin DOMAIN polls THEN [err |-> "AccountNotInitialized"]
    ELSE IF OptionPda(pollKey, index) \in DOMAIN options THEN [err |-> "AccountAlreadyInUse"]
    ELSE IF ~(polls[pollKey].authority = authority) THEN [err |-> "Unauthorized"]
    ELSE IF ~(~polls[pollKey].ended) THEN [err |-> "VotingClosed"]
    ELSE [err |-> "Ok",
          poll |-> polls[pollKey],
          label_guard |-> IF LabelGuardPda(pollKey, label_seed) \in DOMAIN guards
                          THEN guards[LabelGuardPda(pollKey, label_seed)]
                          ELSE ZeroLabelGuard]

saturating_add(a, b) == IF a + b > U16Max THEN U16Max ELSE a + b

Max(a, b) == IF a >= b THEN a ELSE b

\* the start check made inclusive
before_start_inclusive(poll, clock) == poll.start_ts >= clock

\* line 11
before_start(poll, clock) == poll.start_ts > clock

\* the guard is never found in use
label_guard_used_never(guard) == FALSE

\* line 24
label_guard_used(guard) == guard.poll # DefaultPda

\* the guard looked at before the commitment is verified
add_option_handler_guard_first(acc, pollKey, index, label, label_seed, clock) ==
    LET poll == acc.poll
        trimmed == trim(label)
        canonical == to_lowercase(trimmed)
        expected == Hash(canonical)
        guard == acc.label_guard
    IN
    IF ~before_start(poll, clock) THEN [err |-> "VotingStarted"]
    ELSE IF ~(trimmed # <<>>) THEN [err |-> "LabelEmpty"]
    ELSE IF ~(Len(trimmed) <= MAX_LABEL) THEN [err |-> "LabelTooLong"]
    ELSE IF label_guard_used(guard) THEN [err |-> "LabelAlreadyUsed"]
    ELSE IF ~(label_seed = expected) THEN [err |-> "LabelSeedMismatch"]
    ELSE [err |-> "Ok",
          label_guard |-> [poll |-> pollKey, label_hash |-> label_seed],
          option_node |-> [poll |-> pollKey, index |-> index, label |-> trimmed,
                           plus_votes |-> 0, minus_votes |-> 0],
          poll |-> [poll EXCEPT !.options_count =
                        Max(poll.options_count, saturating_add(index, 1))]]

add_option_handler(acc, pollKey, index, label, label_seed, clock) ==
    LET poll == acc.poll
        trimmed == trim(label)
        canonical == to_lowercase(trimmed)
        expected == Hash(canonical)
        guard == acc.label_guard
    IN
    IF ~before_start(poll, clock) THEN [err |-> "VotingStarted"]
    ELSE IF ~(trimmed # <<>>) THEN [err |-> "LabelEmpty"]
    ELSE IF ~(Len(trimmed) <= MAX_LABEL) THEN [err |-> "LabelTooLong"]
    ELSE IF ~(label_seed = expected) THEN [err |-> "LabelSeedMismatch"]
    ELSE IF label_guard_used(guard) THEN [err |-> "LabelAlreadyUsed"]
    ELSE [err |-> "Ok",
          label_guard |-> [poll |-> pollKey, label_hash |-> label_seed],
          option_node |-> [poll |-> pollKey, index |-> index, label |-> trimmed,
                           plus_votes |-> 0, minus_votes |-> 0],
          poll |-> [poll EXCEPT !.options_count =
                        Max(poll.options_count, saturating_add(index, 1))]]

add_option_result(authority, pollKey, index, label, label_seed) ==
    LET acc == AddOption(authority, pollKey, index, label_seed) IN
    IF acc.err # "Ok" THEN [err |-> acc.err]
    ELSE add_option_handler(acc, pollKey, index, label, label_seed, now)

add_option_commit(r, pollKey, index, label_seed) ==
    IF r.err = "Ok"
    THEN [polls |-> Put(polls, pollKey, r.poll),
          guards |-> Put(guards, LabelGuardPda(pollKey, label_seed), r.label_guard),
          options |-> Put(options, OptionPda(pollKey, index), r.option_node)]
    ELSE [polls |-> polls, guards |-> guards, options |-> options]

add_option(authority, pollKey, index, label, label_seed) ==
    LET c == add_option_commit(
                 add_option_result(authority, pollKey, index, label, label_seed),
                 pollKey, index, label_seed)
    IN
    /\ polls' = c.polls
    /\ guards' = c.guards
    /\ options' = c.options
    /\ UNCHANGED <<now, voters, receipts, history>>

----------------------------------------------------------------------------
(* cast_vote *)

\* the constraint on poll.ended left out
CastVote_ended_unchecked(voter_authority, pollKey, index) ==
    IF pollKey \notin DOMAIN polls THEN [err |-> "AccountNotInitialized"]
    ELSE IF OptionPda(pollKey, index) \notin DOMAIN options THEN [err |-> "AccountNotInitialized"]
    ELSE IF ~(options[OptionPda(pollKey, index)].poll = pollKey) THEN [err |-> "PollMismatch"]
    ELSE [err |-> "Ok",
          poll |-> polls[pollKey],
          option_node |-> options[OptionPda(pollKey, index)],
          voter |-> IF VoterPda(pollKey, voter_authority) \in DOMAIN voters
                    THEN voters[VoterPda(pollKey, voter_authority)]
                    ELSE ZeroVoter,
          receipt |-> IF ReceiptPda(pollKey, index, voter_authority) \in DOMAIN receipts
                      THEN receipts[ReceiptPda(pollKey, index, voter_authority)]
                      ELSE ZeroReceipt]

\* account validation: poll and option_node are loaded, voter and receipt
\* are created when absent (init_if_needed), then the constraints of the
\* poll and of the option are checked
CastVote(voter_authority, pollKey, index) ==
    IF pollKey \notin DOMAIN polls THEN [err |-> "AccountNotInitialized"]
    ELSE IF OptionPda(pollKey, index) \notin DOMAIN options THEN [err |-> "AccountNotInitialized"]
    ELSE IF ~(~polls[pollKey].ended) THEN [err |-> "VotingClosed"]
    ELSE IF ~(options[OptionPda(pollKey, index)].poll = pollKey) THEN [err |-> "PollMismatch"]
    ELSE [err |-> "Ok",
          poll |-> polls[pollKey],
          option_node |-> options[OptionPda(pollKey, index)],
          voter |-> IF VoterPda(pollKey, voter_authority) \in DOMAIN voters
                    THEN voters[VoterPda(pollKey, voter_authority)]
                    ELSE ZeroVoter,
          receipt |-> IF ReceiptPda(pollKey, index, voter_authority) \in DOMAIN receipts
                      THEN receipts[ReceiptPda(pollKey, index, voter_authority)]
                      ELSE ZeroReceipt]

\* the credit record initialised on every vote, whether or not it is new
cast_vote_resolve_voter_always_init(voter, pollKey, voter_authority) ==
    [err |-> "Ok",
     voter |-> [poll |-> pollKey, voter |-> voter_authority,
                used_plus |-> 0, used_minus |-> 0]]

\* lines 17-25: lazy initialisation or binding check of the credit record
cast_vote_resolve_voter(voter, pollKey, voter_authority) ==
    IF voter.poll = DefaultPda
    THEN [err |-> "Ok",
          voter |-> [poll |-> pollKey, voter |-> voter_authority,
                     used_plus |-> 0, used_minus |-> 0]]
    ELSE IF voter.poll # pollKey THEN [err |-> "PollMismatch"]
    ELSE IF voter.voter # voter_authority THEN [err |-> "Unauthorized"]
    ELSE [err |-> "Ok", voter |-> voter]

\* the receipt is never looked at
cast_vote_check_receipt_skipped(receipt, option, pollKey, voter_authority) == "Ok"

\* lines 27-33: an initialised receipt rejects the vote
cast_vote_check_receipt(receipt, option, pollKey, voter_authority) ==
    IF receipt.poll # DefaultPda
    THEN IF receipt.poll # pollKey THEN "PollMismatch"
         ELSE IF receipt.voter # voter_authority THEN "Unauthorized"
         ELSE IF ~(receipt.option_index = option.index) THEN "PollMismatch"
         ELSE "AlreadyVotedThisOption"
    ELSE "Ok"

\* the budget check made inclusive
positive_credit_left_inclusive(voter, poll) == voter.used_plus <= poll.plus_credits

\* the budget check left out
positive_credit_left_unchecked(voter, poll) == TRUE

\* line 37
positive_credit_left(voter, poll) == voter.used_plus < poll.plus_credits

\* the ratio gate over the current used_minus instead of the next one
ratio_gate_current(voter) ==
    LET p == voter.used_plus
        m == voter.used_minus % (U16Max + 1)
    IN p >= (2 * m) % (U16Max + 1)

\* the ratio gate made strict
ratio_gate_strict(voter) ==
    LET p == voter.used_plus
        m_next == (voter.used_minus + 1) % (U16Max + 1)
    IN p > (2 * m_next) % (U16Max + 1)

\* the factor 2 of the ratio gate left out
ratio_gate_half(voter) ==
    LET p == voter.used_plus
        m_next == (voter.used_minus + 1) % (U16Max + 1)
    IN p >= m_next

\* lines 43-45: the ratio gate, computed in u16
ratio_gate(voter) ==
    LET p == voter.used_plus
        m_next == (voter.used_minus + 1) % (U16Max + 1)
    IN p >= (2 * m_next) % (U16Max + 1)

\* lines 44-45: whether m_next or 2 * m_next leaves the u16 range
ratio_gate_overflow(voter) ==
    \/ voter.used_minus + 1 > U16Max
    \/ 2 * (voter.used_minus + 1) > U16Max

\* line 47
negative_credit_left(voter, poll) == voter.used_minus < poll.minus_credits

\* one net tally: an accepted -1 also takes a vote off plus_votes
cast_vote_apply_net_tally(poll, option, voter, sentiment) ==
    IF sentiment = 1
    THEN IF ~positive_credit_left(voter, poll) THEN [err |-> "OutOfPositiveCredits"]
         ELSE IF voter.used_plus + 1 > U8Max THEN [err |-> "MathOverflow"]
         ELSE IF option.plus_votes = TallyMax THEN [err |-> "MathOverflow"]
         ELSE [err |-> "Ok",
               voter |-> [voter EXCEPT !.used_plus = @ + 1],
               option_node |-> [option EXCEPT !.plus_votes = @ + 1]]
    ELSE IF ~ratio_gate(voter) THEN [err |-> "InsufficientPositivesForNegative"]
         ELSE IF ~negative_credit_left(voter, poll) THEN [err |-> "OutOfNegativeCredits"]
         ELSE IF voter.used_minus + 1 > U8Max THEN [err |-> "MathOverflow"]
         ELSE IF option.minus_votes = TallyMax THEN [err |-> "MathOverflow"]
         ELSE [err |-> "Ok",
               voter |-> [voter EXCEPT !.used_minus = @ + 1],
               option_node |-> [option EXCEPT !.minus_votes = @ + 1,
                                              !.plus_votes = IF @ > 0 THEN @ - 1 ELSE 0]]

\* lines 35-52: the credit rules and the counters
cast_vote_apply(poll, option, voter, sentiment) ==
    IF sentiment = 1
    THEN IF ~positive_credit_left(voter, poll) THEN [err |-> "OutOfPositiveCredits"]
         ELSE IF voter.used_plus + 1 > U8Max THEN [err |-> "MathOverflow"]
         ELSE IF option.plus_votes = TallyMax THEN [err |-> "MathOverflow"]
         ELSE [err |-> "Ok",
               voter |-> [voter EXCEPT !.used_plus = @ + 1],
               option_node |-> [option EXCEPT !.plus_votes = @ + 1]]
    ELSE IF ~ratio_gate(voter) THEN [err |-> "InsufficientPositivesForNegative"]
         ELSE IF ~negative_credit_left(voter, poll) THEN [err |-> "OutOfNegativeCredits"]
         ELSE IF voter.used_minus + 1 > U8Max THEN [err |-> "MathOverflow"]
         ELSE IF option.minus_votes = TallyMax THEN [err |-> "MathOverflow"]
         ELSE [err |-> "Ok",
               voter |-> [voter EXCEPT !.used_minus = @ + 1],
               option_node |-> [option EXCEPT !.minus_votes = @ + 1]]

\* the start of the window made exclusive
voting_started_exclusive(clock, poll) == clock > poll.start_ts

\* line 9
voting_started(clock, poll) == clock >= poll.start_ts

\* line 10
voting_not_over(clock, poll) == clock <= poll.end_ts

\* the credit rules applied before the receipt is looked at
cast_vote_handler_credits_first(acc, pollKey, voter_authority, sentiment, clock) ==
    LET poll == acc.poll
        option == acc.option_node
        v == cast_vote_resolve_voter(acc.voter, pollKey, voter_authority)
        dup == cast_vote_check_receipt(acc.receipt, option, pollKey, voter_authority)
    IN
    IF ~voting_started(clock, poll) THEN [acc EXCEPT !.err = "VotingNotStarted"]
    ELSE IF ~voting_not_over(clock, poll) THEN [acc EXCEPT !.err = "VotingClosed"]
    ELSE IF ~(sentiment \in {1, -1}) THEN [acc EXCEPT !.err = "InvalidSentiment"]
    ELSE IF v.err # "Ok" THEN [acc EXCEPT !.err = v.err]
    ELSE LET a == cast_vote_apply(poll, option, v.voter, sentiment) IN
         IF a.err # "Ok" THEN [acc EXCEPT !.err = a.err, !.voter = v.voter]
         ELSE IF dup # "Ok" THEN [acc EXCEPT !.err = dup, !.voter = v.voter]
         ELSE [acc EXCEPT
                 !.voter = a.voter,
                 !.option_node = a.option_node,
                 !.receipt = [poll |-> pollKey, voter |-> voter_authority,
                              option_index |-> option.index, sentiment |-> sentiment]]

\* the positive budget kept on the poll: an accepted +1 takes one credit
\* from poll.plus_credits
cast_vote_handler_poll_budget(acc, pollKey, voter_authority, sentiment, clock) ==
    LET poll == acc.poll
        option == acc.option_node
        v == cast_vote_resolve_voter(acc.voter, pollKey, voter_authority)
        dup == cast_vote_check_receipt(acc.receipt, option, pollKey, voter_authority)
    IN
    IF ~voting_started(clock, poll) THEN [acc EXCEPT !.err = "VotingNotStarted"]
    ELSE IF ~voting_not_over(clock, poll) THEN [acc EXCEPT !.err = "VotingClosed"]
    ELSE IF ~(sentiment \in {1, -1}) THEN [acc EXCEPT !.err = "InvalidSentiment"]
    ELSE IF v.err # "Ok" THEN [acc EXCEPT !.err = v.err]
    ELSE IF dup # "Ok" THEN [acc EXCEPT !.err = dup, !.voter = v.voter]
    ELSE LET a == cast_vote_apply(poll, option, v.voter, sentiment) IN
         IF a.err # "Ok" THEN [acc EXCEPT !.err = a.err, !.voter = v.voter]
         ELSE [acc EXCEPT
                 !.poll = IF sentiment = 1
                          THEN [poll EXCEPT !.plus_credits = @ - 1]
                          ELSE poll,
                 !.voter = a.voter,
                 !.option_node = a.option_node,
                 !.receipt = [poll |-> pollKey, voter |-> voter_authority,
                              option_index |-> option.index, sentiment |-> sentiment]]

\* the handler returns the error and the accounts as it leaves them
cast_vote_handler(acc, pollKey, voter_authority, sentiment, clock) ==
    LET poll == acc.poll
        option == acc.option_node
        v == cast_vote_resolve_voter(acc.voter, pollKey, voter_authority)
        dup == cast_vote_check_receipt(acc.receipt, option, pollKey, voter_authority)
    IN
    IF ~voting_started(clock, poll) THEN [acc EXCEPT !.err = "VotingNotStarted"]
    ELSE IF ~voting_not_over(clock, poll) THEN [acc EXCEPT !.err = "VotingClosed"]
    ELSE IF ~(sentiment \in {1, -1}) THEN [acc EXCEPT !.err = "InvalidSentiment"]
    ELSE IF v.err # "Ok" THEN [acc EXCEPT !.err = v.err]
    ELSE IF dup # "Ok" THEN [acc EXCEPT !.err = dup, !.voter = v.voter]
    ELSE LET a == cast_vote_apply(poll, option, v.voter, sentiment) IN
         IF a.err # "Ok" THEN [acc EXCEPT !.err = a.err, !.voter = v.voter]
         ELSE [acc EXCEPT
                 !.voter = a.voter,
                 !.option_node = a.option_node,
                 !.receipt = [poll |-> pollKey, voter |-> voter_authority,
                              option_index |-> option.index, sentiment |-> sentiment]]

cast_vote_result(voter_authority, pollKey, index, sentiment) ==
    LET acc == CastVote(voter_authority, pollKey, index) IN
    IF acc.err # "Ok" THEN acc
    ELSE cast_vote_handler(acc, pollKey, voter_authority, sentiment, now)

\* the accounts written back whatever the handler returned: no rollback
\* of a failed transaction
cast_vote_commit_no_rollback(r, voter_authority, pollKey, index) ==
    IF "voter" \in DOMAIN r
    THEN [polls |-> Put(polls, pollKey, r.poll),
          voters |-> Put(voters, VoterPda(pollKey, voter_authority), r.voter),
          options |-> Put(options, OptionPda(pollKey, index), r.option_node),
          receipts |-> Put(receipts, ReceiptPda(pollKey, index, voter_authority), r.receipt)]
    ELSE [polls |-> polls, voters |-> voters, options |-> options, receipts |-> receipts]

\* the option account not written back (declared without `mut`)
cast_vote_commit_option_not_written(r, voter_authority, pollKey, index) ==
    IF r.err = "Ok"
    THEN [polls |-> Put(polls, pollKey, r.poll),
          voters |-> Put(voters, VoterPda(pollKey, voter_authority), r.voter),
          options |-> options,
          receipts |-> Put(receipts, ReceiptPda(pollKey, index, voter_authority), r.receipt)]
    ELSE [polls |-> polls, voters |-> voters, options |-> options, receipts |-> receipts]

\* the accounts after the transaction: every `mut` and init_if_needed
\* account of CastVote is written back when the handler returned Ok
cast_vote_commit(r, voter_authority, pollKey, index) ==
    IF r.err = "Ok"
    THEN [polls |-> Put(polls, pollKey, r.poll),
          voters |-> Put(voters, VoterPda(pollKey, voter_authority), r.voter),
          options |-> Put(options, OptionPda(pollKey, index), r.option_node),
          receipts |-> Put(receipts, ReceiptPda(pollKey, index, voter_authority), r.receipt)]
    ELSE [polls |-> polls, voters |-> voters, options |-> options, receipts |-> receipts]

cast_vote(voter_authority, pollKey, index, sentiment) ==
    LET c == cast_vote_commit(
                 cast_vote_result(voter_authority, pollKey, index, sentiment),
                 voter_authority, pollKey, index)
    IN
    /\ polls' = c.polls
    /\ voters' = c.voters
    /\ options' = c.options
    /\ receipts' = c.receipts
    /\ UNCHANGED <<now, guards, history>>

----------------------------------------------------------------------------
(* the clock *)

Tick ==
    /\ now < MaxTime
    /\ now' = now + 1
    /\ UNCHANGED <<store, history>>

----------------------------------------------------------------------------
(* Calls *)

LongLabel == [i \in 1..(MAX_LABEL + 1) |-> "x"]

Labels == { <<"A">>, <<" ", "a", " ">>, <<"b">>, <<"c">>, <<" ">>, LongLabel }

\* the commitments a client sends with a label: the hash of its canonical
\* form, the hash of the trimmed label with its capitals left in, or the
\* hash of another label
LabelSeeds(label) == { Hash(Canonical(label)), Hash(trim(label)), Hash(<<"b">>) }

\* the option indices callers use: the first two and the largest u16
Indices == {0, 1, U16Max}

Sentiments == {-1, 0, 1}

PollKeys == {PollPda(a, 1) : a \in PollAuthorities}

Next ==
    \/ \E a \in PollAuthorities, cfg \in PollConfigs : initialize_poll(a, cfg)
    \/ \E a \in Signers, pk \in PollKeys, i \in Indices, l \in Labels :
          \E h \in LabelSeeds(l) : add_option(a, pk, i, l, h)
    \/ \E a \in Signers, pk \in PollKeys, i \in Indices, s \in Sentiments :
          cast_vote(a, pk, i, s)
    \/ Tick

Spec == Init /\ [][Next]_vars

\* initialize_poll alone, over every combination of valid and invalid fields
WidePollConfigs ==
    [poll_id : {0, 1},
     title : {MAX_TITLE, MAX_TITLE + 1},
     description : {MAX_DESC, MAX_DESC + 1},
     plus_credits : 0..MaxCredits,
     minus_credits : 0..MaxCredits,
     start_ts : {now - 1, now, now + 1},
     end_ts : {now, now + 1, now + 2}]

NextPoll ==
    \/ \E a \in PollAuthorities, cfg \in WidePollConfigs : initialize_poll(a, cfg)
    \/ Tick

SpecPoll == Init /\ [][NextPoll]_vars

\* one voter in a poll with four positive credits, one or two negative
\* credits and up to six options
RatioPollConfigs ==
    [poll_id : {1},
     title : {MAX_TITLE},
     description : {MAX_DESC},
     plus_credits : {4},
     minus_credits : {1, 2},
     start_ts : {1},
     end_ts : {2}]

RatioIndices == 0..5

RatioLabels == << <<"a">>, <<"b">>, <<"c">>, <<"d">>, <<"e">>, <<"f">> >>

RatioVoters == {"k2"}

NextRatio ==
    \/ \E a \in PollAuthorities, cfg \in RatioPollConfigs : initialize_poll(a, cfg)
    \/ \E a \in PollAuthorities, pk \in PollKeys, i \in RatioIndices :
          add_option(a, pk, i, RatioLabels[i + 1], Hash(Canonical(RatioLabels[i + 1])))
    \/ \E a \in RatioVoters, pk \in PollKeys, i \in RatioIndices, s \in {1, -1} :
          cast_vote(a, pk, i, s)
    \/ Tick

SpecRatio == Init /\ [][NextRatio]_vars

\* the ends of the 8-bit credit range: a poll with the smallest or the
\* largest positive budget, in which one voter has cast used_plus positive
\* votes and then used_minus negative votes
CreditCases ==
    { c \in [plus_credits : {1, U8Max},
             minus_credits : {0, U8Max \div 2, U8Max},
             used_plus : {0, 1, U8Max - 2, U8Max - 1, U8Max},
             used_minus : {0, (U8Max \div 2) - 1, U8Max \div 2}] :
        /\ c.used_plus <= c.plus_credits
        /\ c.used_minus <= c.minus_credits
        /\ 2 * c.used_minus <= c.used_plus }

CreditVoters == {"k2"}

\* the indices voted on from there: two options without a vote and the
\* first option voted on
CreditIndices == {0, 1, 2}

CreditLabel(i) ==
    <<"o", ToString(i \div 100), ToString((i \div 10) % 10), ToString(i % 10)>>

\* the accounts after the owner has created the poll and registered
\* used_plus + used_minus + 2 options at second 0, and the voter has voted
\* +1 on the options from index 2 on and then -1 on the following ones, at
\* second 1
CreditPoll(c) ==
    [from_config([poll_id |-> 1, title |-> MAX_TITLE, description |-> MAX_DESC,
                  plus_credits |-> c.plus_credits, minus_credits |-> c.minus_credits,
                  start_ts |-> 1, end_ts |-> 2], "k1")
        EXCEPT !.options_count = c.used_plus + c.used_minus + 2]

CreditSentiment(c, i) == IF i < 2 + c.used_plus THEN 1 ELSE -1

InitCredits ==
    \E c \in CreditCases, a \in CreditVoters :
        LET pk == PollPda("k1", 1)
            all == 0..(c.used_plus + c.used_minus + 1)
            voted == 2..(c.used_plus + c.used_minus + 1)
        IN
        /\ now = 1
        /\ polls = [k \in {pk} |-> CreditPoll(c)]
        /\ options = [k \in {OptionPda(pk, i) : i \in all} |->
                          [poll |-> pk, index |-> k[2], label |-> CreditLabel(k[2]),
                           plus_votes |-> IF k[2] \in voted /\ CreditSentiment(c, k[2]) = 1
                                          THEN 1 ELSE 0,
                           minus_votes |-> IF k[2] \in voted /\ CreditSentiment(c, k[2]) = -1
                                           THEN 1 ELSE 0]]
        /\ guards = [k \in {LabelGuardPda(pk, Hash(Canonical(CreditLabel(i)))) : i \in all} |->
                         [poll |-> pk, label_hash |-> k[2]]]
        /\ voters = IF voted = {} THEN <<>>
                    ELSE [k \in {VoterPda(pk, a)} |->
                             [poll |-> pk, voter |-> a,
                              used_plus |-> c.used_plus, used_minus |-> c.used_minus]]
        /\ receipts = [k \in {ReceiptPda(pk, i, a) : i \in voted} |->
                           [poll |-> pk, voter |-> a, option_index |-> k[2],
                            sentiment |-> CreditSentiment(c, k[2])]]
        /\ history = <<>>

NextCredits ==
    \/ \E a \in CreditVoters, pk \in PollKeys, i \in CreditIndices, s \in Sentiments :
          cast_vote(a, pk, i, s)
    \/ Tick

SpecCredits == InitCredits /\ [][NextCredits]_vars

\* the close operation of the specification (section 3: `ended` is a
\* terminal flag set by an external close operation); the program has no
\* instruction for it and only reads the flag
close_poll(pollKey) ==
    /\ pollKey \in DOMAIN polls
    /\ ~polls[pollKey].ended
    /\ polls' = [polls EXCEPT ![pollKey].ended = TRUE]
    /\ UNCHANGED <<now, options, guards, voters, receipts, history>>

NextClose ==
    \/ Next
    \/ \E pk \in PollKeys : close_poll(pk)

SpecClose == Init /\ [][NextClose]_vars

----------------------------------------------------------------------------
(* Calculator (task2) *)

\* i64 values: [hi, lo] stands for hi * 2^63 + lo
I64(n) == [hi |-> 0, lo |-> n]
I64_MIN == [hi |-> -1, lo |-> 0]
I64_MAX == [hi |-> 1, lo |-> -1]

\* the exact result of an operation, with the coefficient of 2^126 in hi2
wide_add(x, y) == [hi2 |-> 0, hi |-> x.hi + y.hi, lo |-> x.lo + y.lo]
wide_sub(x, y) == [hi2 |-> 0, hi |-> x.hi - y.hi, lo |-> x.lo - y.lo]
wide_mul(x, y) ==
    [hi2 |-> x.hi * y.hi, hi |-> x.hi * y.lo + x.lo * y.hi, lo |-> x.lo * y.lo]

\* -2^63 <= w <= 2^63 - 1, for coefficients far smaller than 2^63
fits_i64(w) ==
    /\ w.hi2 = 0
    /\ \/ w.hi = 0
       \/ w.hi = 1 /\ w.lo <= -1
       \/ w.hi = -1 /\ w.lo >= 0

None == [some |-> FALSE]
Some(v) == [some |-> TRUE, value |-> v]

checked(w) == IF fits_i64(w) THEN Some([hi |-> w.hi, lo |-> w.lo]) ELSE None

checked_add(x, y) == checked(wide_add(x, y))
checked_sub(x, y) == checked(wide_sub(x, y))
checked_mul(x, y) == checked(wide_mul(x, y))

OperationTypes == {"Addition", "Subtraction", "Multiplication"}

perform(operation_type, x, y) ==
    CASE operation_type = "Addition" -> checked_add(x, y)
      [] operation_type = "Subtraction" -> checked_sub(x, y)
      [] operation_type = "Multiplication" -> checked_mul(x, y)

Operation(first_num, second_num, operation_type) ==
    [first_num |-> first_num, second_num |-> second_num,
     operation_type |-> operation_type]

\* the operation stored whether or not it overflowed
Calculator_addition_always_push(h, x, y) ==
    LET result == perform("Addition", x, y) IN
    [result |-> result, history |-> Append(h, Operation(x, y, "Addition"))]

\* each method returns its result and the history it leaves
Calculator_addition(h, x, y) ==
    LET result == perform("Addition", x, y) IN
    [result |-> result,
     history |-> IF result.some THEN Append(h, Operation(x, y, "Addition")) ELSE h]

Calculator_subtraction(h, x, y) ==
    LET result == perform("Subtraction", x, y) IN
    [result |-> result,
     history |-> IF result.some THEN Append(h, Operation(x, y, "Subtraction")) ELSE h]

Calculator_multiplication(h, x, y) ==
    LET result == perform("Multiplication", x, y) IN
    [result |-> result,
     history |-> IF result.some THEN Append(h, Operation(x, y, "Multiplication")) ELSE h]

\* operation_index counts from 0
Calculator_repeat(h, operation_index) ==
    IF ~(operation_index < Len(h)) THEN [result |-> None, history |-> h]
    ELSE LET op == h[operation_index + 1]
             result == perform(op.operation_type, op.first_num, op.second_num)
             pushed == IF result.some
                       THEN Append(h, Operation(op.first_num, op.second_num, op.operation_type))
                       ELSE h
         IN [result |-> perform(pushed[operation_index + 1].operation_type,
                                pushed[operation_index + 1].first_num,
                                pushed[operation_index + 1].second_num),
             history |-> pushed]

\* the numbers callers pass: both ends of the i64 range, 1 and -1
I64Values == {I64_MIN, I64(-1), I64(1), I64_MAX}

calculator_step(r) ==
    /\ Len(r.history) <= MaxHistory
    /\ history' = r.history
    /\ UNCHANGED <<now, store>>

addition(x, y) == calculator_step(Calculator_addition(history, x, y))

subtraction(x, y) == calculator_step(Calculator_subtraction(history, x, y))

multiplication(x, y) == calculator_step(Calculator_multiplication(history, x, y))

repeat(operation_index) == calculator_step(Calculator_repeat(history, operation_index))

clear_history ==
    /\ history' = <<>>
    /\ UNCHANGED <<now, store>>

NextCalc ==
    \/ \E x \in I64Values, y \in I64Values : addition(x, y)
    \/ \E x \in I64Values, y \in I64Values : subtraction(x, y)
    \/ \E x \in I64Values, y \in I64Values : multiplication(x, y)
    \/ \E i \in 0..MaxHistory : repeat(i)
    \/ clear_history

SpecCalc == Init /\ [][NextCalc]_vars

----------------------------------------------------------------------------
(* Properties.  A property about a call is stated over every call that can  *)
(* be issued in a reachable state: its result and the accounts it leaves    *)
(* are the ones the action of that call produces.                           *)

UsedPlus(vk) == IF vk \in DOMAIN voters THEN voters[vk].used_plus ELSE 0
UsedMinus(vk) == IF vk \in DOMAIN voters THEN voters[vk].used_minus ELSE 0

CastVoteUnchanged(a, pk, i, s) ==
    cast_vote_commit(cast_vote_result(a, pk, i, s), a, pk, i)
        = [polls |-> polls, voters |-> voters, options |-> options, receipts |-> receipts]

\* C1: in every reachable state every voter credit record of every poll has
\* used_plus <= plus_credits and used_minus <= minus_credits of that poll.
C1_CreditBudget ==
    \A vk \in DOMAIN voters :
        /\ voters[vk].poll \in DOMAIN polls
        /\ voters[vk].used_plus <= polls[voters[vk].poll].plus_credits
        /\ voters[vk].used_minus <= polls[voters[vk].poll].minus_credits

\* a voter who has used up both budgets, the negative one not empty
C1_Witness ==
    \E vk \in DOMAIN voters :
        /\ voters[vk].used_plus = polls[voters[vk].poll].plus_credits
        /\ voters[vk].used_minus = polls[voters[vk].poll].minus_credits
        /\ voters[vk].used_minus > 0

\* C2: a cast_vote with sentiment -1 is accepted only in a state where the
\* caller's used_plus >= 2 * (used_minus + 1), both read before the vote's
\* increment (0 for a voter without a credit record).
C2_RatioGate ==
    \A a \in Signers, pk \in PollKeys, i \in Indices :
        cast_vote_result(a, pk, i, -1).err = "Ok"
            => UsedPlus(VoterPda(pk, a)) >= 2 * (UsedMinus(VoterPda(pk, a)) + 1)

\* a voter holds a negative receipt and a -1 of another voter is stopped
\* by the gate
C2_Witness ==
    \E rk \in DOMAIN receipts :
        /\ receipts[rk].sentiment = -1
        /\ \E a \in Signers, i \in Indices :
              cast_vote_result(a, rk[1], i, -1).err = "InsufficientPositivesForNegative"

\* C3: a (poll, option, voter) triple that has a receipt accepts no further
\* cast_vote, whatever the sentiment, and such a call changes no account;
\* the credits a voter has used are the receipts the voter holds, and the
\* votes an option has received are the receipts on it.
C3_OneReceiptPerTriple ==
    /\ \A rk \in DOMAIN receipts :
          \A s \in Sentiments :
              /\ cast_vote_result(rk[3], rk[1], rk[2], s).err # "Ok"
              /\ CastVoteUnchanged(rk[3], rk[1], rk[2], s)
    /\ \A vk \in DOMAIN voters :
          voters[vk].used_plus + voters[vk].used_minus
              = Cardinality({rk \in DOMAIN receipts : VoterPda(rk[1], rk[3]) = vk})
    /\ \A ok \in DOMAIN options :
          options[ok].plus_votes + options[ok].minus_votes
              = Cardinality({rk \in DOMAIN receipts : OptionPda(rk[1], rk[2]) = ok})

\* a receipt of a voter who still has positive credit, in the open window
C3_Witness ==
    \E rk \in DOMAIN receipts :
        /\ now <= polls[rk[1]].end_ts
        /\ UsedPlus(VoterPda(rk[1], rk[3])) < polls[rk[1]].plus_credits
        /\ cast_vote_result(rk[3], rk[1], rk[2], 1).err # "Ok"

\* C4 as stated: every +1 or -1 cast_vote for a triple that has a receipt
\* fails with AlreadyVotedThisOption.
C4_AlwaysDuplicateError ==
    \A rk \in DOMAIN receipts :
        \A s \in {1, -1} :
            cast_vote_result(rk[3], rk[1], rk[2], s).err = "AlreadyVotedThisOption"

\* C4, amended: every +1 or -1 cast_vote for a triple that has a receipt
\* fails, with AlreadyVotedThisOption while now <= end_ts and with
\* VotingClosed afterwards, whether the sentiment is the recorded one or
\* not; it leaves the tallies, the credit records and the receipts as they
\* were.
C4_DuplicateRejected ==
    \A rk \in DOMAIN receipts :
        \A s \in {1, -1} :
            /\ cast_vote_result(rk[3], rk[1], rk[2], s).err
                   = IF now <= polls[rk[1]].end_ts
                     THEN "AlreadyVotedThisOption"
                     ELSE "VotingClosed"
            /\ CastVoteUnchanged(rk[3], rk[1], rk[2], s)

\* a receipt in the open window whose voter could still afford the opposite
\* sentiment
C4_Witness ==
    \E rk \in DOMAIN receipts :
        /\ now <= polls[rk[1]].end_ts
        /\ receipts[rk].sentiment = 1
        /\ \E i \in Indices : cast_vote_result(rk[3], rk[1], i, -1).err = "Ok"

AddOptionUnchanged(a, pk, i, l, h) ==
    add_option_commit(add_option_result(a, pk, i, l, h), pk, i, h)
        = [polls |-> polls, guards |-> guards, options |-> options]

GuardExists(pk, l) == LabelGuardPda(pk, Hash(Canonical(l))) \in DOMAIN guards

\* C6 as stated: once a label is registered in a poll, every add_option of
\* the owner with a label of the same canonical form and its correct
\* commitment fails with LabelAlreadyUsed, for every index.
C6_SecondAlwaysLabelAlreadyUsed ==
    \A pk \in DOMAIN polls, i \in Indices, l \in Labels :
        GuardExists(pk, l)
            => add_option_result(polls[pk].authority, pk, i, l, Hash(Canonical(l))).err
                   = "LabelAlreadyUsed"

\* C6, amended: such a second call always fails, for every index: with
\* LabelAlreadyUsed when its index names no option yet and now < start_ts,
\* with AccountAlreadyInUse when its index names an option, with
\* VotingStarted otherwise; and no poll holds two options with the same
\* canonical label.
C6_SecondRejected ==
    /\ \A pk \in DOMAIN polls, i \in Indices, l \in Labels :
          GuardExists(pk, l)
              => add_option_result(polls[pk].authority, pk, i, l, Hash(Canonical(l))).err
                     = IF OptionPda(pk, i) \in DOMAIN options THEN "AccountAlreadyInUse"
                       ELSE IF now >= polls[pk].start_ts THEN "VotingStarted"
                       ELSE "LabelAlreadyUsed"
    /\ \A o1 \in DOMAIN options, o2 \in DOMAIN options :
          (o1 # o2 /\ o1[1] = o2[1])
              => Canonical(options[o1].label) # Canonical(options[o2].label)

\* a label is registered under one spelling, the other spelling is refused
\* at a free index, and a second option exists in the poll
C6_Witness ==
    \E pk \in DOMAIN polls, i \in Indices, l \in Labels :
        /\ GuardExists(pk, l)
        /\ \A ok \in DOMAIN options : options[ok].label # trim(l)
        /\ add_option_result(polls[pk].authority, pk, i, l, Hash(Canonical(l))).err
               = "LabelAlreadyUsed"
        /\ Cardinality(DOMAIN options) >= 2

\* C7: an add_option issued at now >= start_ts of its poll fails and changes
\* no account, whoever calls it and whether or not a vote has been cast; so
\* an option is only ever created at a time strictly before start_ts.
C7_NoOptionAfterStart ==
    \A a \in Signers, pk \in DOMAIN polls, i \in Indices, l \in Labels :
        \A h \in LabelSeeds(l) :
            now >= polls[pk].start_ts
                => /\ add_option_result(a, pk, i, l, h).err # "Ok"
                   /\ AddOptionUnchanged(a, pk, i, l, h)

\* at now = start_ts, before any vote, an otherwise valid add_option of the
\* owner is refused as VotingStarted
C7_Witness ==
    \E pk \in DOMAIN polls, i \in Indices, l \in Labels :
        /\ now = polls[pk].start_ts
        /\ receipts = <<>>
        /\ options # <<>>
        /\ add_option_result(polls[pk].authority, pk, i, l, Hash(Canonical(l))).err
               = "VotingStarted"

PollConfigValid(cfg) ==
    /\ cfg.poll_id # 0
    /\ cfg.title <= MAX_TITLE
    /\ cfg.description <= MAX_DESC
    /\ cfg.plus_credits > 0
    /\ cfg.end_ts > cfg.start_ts
    /\ cfg.start_ts >= now

\* C9: at an unused (owner, poll_id) address initialize_poll succeeds if and
\* only if poll_id # 0, the title and the description are within their
\* bounds, plus_credits > 0, end_ts > start_ts and start_ts >= now; each
\* error is reported only for its own condition; the poll created holds
\* the configuration with options_count = 0 and ended = FALSE.
C9_CreatePoll ==
    \A a \in PollAuthorities, cfg \in WidePollConfigs :
        PollPda(a, cfg.poll_id) \notin DOMAIN polls
            => LET r == initialize_poll_result(a, cfg) IN
               /\ (r.err = "Ok") <=> PollConfigValid(cfg)
               /\ r.err \in {"Ok", "InvalidPollId", "TitleTooLong", "DescriptionTooLong",
                             "PlusCreditIsZero", "InvalidTimeWindow"}
               /\ r.err = "InvalidPollId" => cfg.poll_id = 0
               /\ r.err = "TitleTooLong" => cfg.title > MAX_TITLE
               /\ r.err = "DescriptionTooLong" => cfg.description > MAX_DESC
               /\ r.err = "PlusCreditIsZero" => cfg.plus_credits = 0
               /\ r.err = "InvalidTimeWindow"
                     => (cfg.end_ts <= cfg.start_ts \/ cfg.start_ts < now)
               /\ r.err = "Ok"
                     => /\ r.poll.options_count = 0
                        /\ r.poll.ended = FALSE
                        /\ r.poll.authority = a
                        /\ r.poll.plus_credits = cfg.plus_credits
                        /\ r.poll.minus_credits = cfg.minus_credits
                        /\ r.poll.start_ts = cfg.start_ts
                        /\ r.poll.end_ts = cfg.end_ts
                        /\ initialize_poll_commit(r, a, cfg)[PollPda(a, cfg.poll_id)] = r.poll

\* no poll yet, later than second 0: a start at the current second is
\* accepted with no negative credits, a start one second earlier is not
C9_Witness ==
    /\ polls = <<>>
    /\ now > 0
    /\ \E a \in PollAuthorities, cfg \in WidePollConfigs :
          /\ cfg.start_ts = now
          /\ cfg.minus_credits = 0
          /\ initialize_poll_result(a, cfg).err = "Ok"
          /\ initialize_poll_result(a, [cfg EXCEPT !.start_ts = now - 1]).err
                 = "InvalidTimeWindow"

\* C10: an initialize_poll for an (owner, poll_id) that names a poll is
\* rejected, whatever its configuration, and leaves the poll as it is.
C10_OnePollPerAddress ==
    \A pk \in DOMAIN polls, cfg \in PollConfigs :
        cfg.poll_id = pk[2]
            => LET r == initialize_poll_result(pk[1], cfg) IN
               /\ r.err # "Ok"
               /\ initialize_poll_commit(r, pk[1], cfg) = polls

\* a poll with a registered option, and a configuration for its address
\* that the handler would accept
C10_Witness ==
    \E pk \in DOMAIN polls, cfg \in PollConfigs :
        /\ cfg.poll_id = pk[2]
        /\ polls[pk].options_count > 0
        /\ initialize_poll_handler(cfg, pk[1], now).err = "Ok"
        /\ cfg.plus_credits # polls[pk].plus_credits

\* C11: an add_option whose label is registered in the poll and whose
\* commitment is not the hash of the label's canonical form is never
\* answered with LabelAlreadyUsed, is always rejected, and leaves no
\* LabelGuard and no Option behind; when the call passes the account
\* validation before start_ts and its trimmed label is within bounds, its
\* error is LabelSeedMismatch, also when the commitment sent is that of
\* another registered label.
C11_SeedCheckedBeforeGuard ==
    \A a \in Signers, pk \in DOMAIN polls, i \in Indices, l \in Labels :
        \A h \in LabelSeeds(l) :
            (GuardExists(pk, l) /\ h # Hash(Canonical(l)))
                => LET r == add_option_result(a, pk, i, l, h) IN
                   /\ r.err \notin {"Ok", "LabelAlreadyUsed"}
                   /\ AddOptionUnchanged(a, pk, i, l, h)
                   /\ DOMAIN add_option_commit(r, pk, i, h).guards = DOMAIN guards
                   /\ DOMAIN add_option_commit(r, pk, i, h).options = DOMAIN options
                   /\ (/\ AddOption(a, pk, i, h).err = "Ok"
                       /\ now < polls[pk].start_ts
                       /\ trim(l) # <<>>
                       /\ Len(trim(l)) <= MAX_LABEL)
                         => r.err = "LabelSeedMismatch"

\* a registered label is sent again by the owner, at a free index before
\* start_ts, with the commitment of another registered label, and is
\* refused as LabelSeedMismatch
C11_Witness ==
    \E pk \in DOMAIN polls, i \in Indices, l \in Labels :
        \E h \in LabelSeeds(l) :
            /\ GuardExists(pk, l)
            /\ h # Hash(Canonical(l))
            /\ LabelGuardPda(pk, h) \in DOMAIN guards
            /\ OptionPda(pk, i) \notin DOMAIN options
            /\ add_option_result(polls[pk].authority, pk, i, l, h).err = "LabelSeedMismatch"

\* C12: a successful add_option with index i leaves options_count at
\* max(old options_count, i + 1), for every index up to 65535; options_count
\* is not lowered by it, and it is strictly greater than the index of every
\* registered option of the poll.
C12_HighWaterMark ==
    /\ \A a \in Signers, pk \in DOMAIN polls, i \in Indices, l \in Labels :
          \A h \in LabelSeeds(l) :
              LET r == add_option_result(a, pk, i, l, h) IN
              r.err = "Ok"
                  => /\ r.poll.options_count = Max(polls[pk].options_count, i + 1)
                     /\ r.poll.options_count >= polls[pk].options_count
                     /\ add_option_commit(r, pk, i, h).polls[pk].options_count
                            = r.poll.options_count
    /\ \A ok \in DOMAIN options :
          polls[ok[1]].options_count > options[ok].index

\* C13: in the open window, for a voter without a receipt on the option
\* voted on: a -1 is accepted if and only if used_plus >= 2 * (used_minus + 1)
\* and used_minus < minus_credits, and a +1 is accepted if and only if
\* used_plus < plus_credits.  In the poll with plus_credits = 4 and
\* minus_credits = 2: at used_plus = 1 a -1 fails (the gate); at
\* used_plus = 3 a first -1 is accepted and leaves used_minus = 1; at
\* used_plus = 3 a second -1 fails (the gate).
C13_CreditRules ==
    \A a \in Signers, pk \in DOMAIN polls, i \in RatioIndices :
        (/\ OptionPda(pk, i) \in DOMAIN options
         /\ ReceiptPda(pk, i, a) \notin DOMAIN receipts
         /\ polls[pk].start_ts <= now
         /\ now <= polls[pk].end_ts
         /\ ~polls[pk].ended)
            => LET p == UsedPlus(VoterPda(pk, a))
                   m == UsedMinus(VoterPda(pk, a))
                   minus == cast_vote_result(a, pk, i, -1)
                   plus == cast_vote_result(a, pk, i, 1)
                   scenario == polls[pk].plus_credits = 4 /\ polls[pk].minus_credits = 2
                   after == cast_vote_commit(minus, a, pk, i).voters
               IN
               /\ (minus.err = "Ok") <=> (p >= 2 * (m + 1) /\ m < polls[pk].minus_credits)
               /\ (plus.err = "Ok") <=> (p < polls[pk].plus_credits)
               /\ (scenario /\ p = 1)
                     => minus.err = "InsufficientPositivesForNegative"
               /\ (scenario /\ p = 3 /\ m = 0)
                     => /\ minus.err = "Ok"
                        /\ after[VoterPda(pk, a)].used_minus = 1
                        /\ after[VoterPda(pk, a)].used_plus = 3
               /\ (scenario /\ p = 3 /\ m = 1)
                     => minus.err = "InsufficientPositivesForNegative"

\* in the poll with four positive and two negative credits the voter has
\* cast three +1 and one -1, and a second -1 on a fresh option is refused
C13_Witness ==
    \E a \in RatioVoters, pk \in DOMAIN polls, i \in RatioIndices :
        /\ polls[pk].plus_credits = 4
        /\ polls[pk].minus_credits = 2
        /\ UsedPlus(VoterPda(pk, a)) = 3
        /\ UsedMinus(VoterPda(pk, a)) = 1
        /\ OptionPda(pk, i) \in DOMAIN options
        /\ ReceiptPda(pk, i, a) \notin DOMAIN receipts
        /\ cast_vote_result(a, pk, i, -1).err = "InsufficientPositivesForNegative"
        /\ cast_vote_result(a, pk, i, 1).err = "Ok"

\* C14 as stated: every add_option of a caller who is not the owner of the
\* poll fails with Unauthorized and changes no account.
C14_NonOwnerAlwaysUnauthorized ==
    \A a \in Signers, pk \in DOMAIN polls, i \in Indices, l \in Labels :
        \A h \in LabelSeeds(l) :
            a # polls[pk].authority
                => /\ add_option_result(a, pk, i, l, h).err = "Unauthorized"
                   /\ AddOptionUnchanged(a, pk, i, l, h)

\* C14, amended: every add_option of a caller who is not the owner of the
\* poll fails and changes no account: with Unauthorized when its index names
\* no option, with AccountAlreadyInUse when its index names an option; so
\* only a call of the owner is accepted, creates an Option or a LabelGuard
\* or changes options_count.
C14_NonOwnerRejected ==
    \A a \in Signers, pk \in DOMAIN polls, i \in Indices, l \in Labels :
        \A h \in LabelSeeds(l) :
            LET r == add_option_result(a, pk, i, l, h) IN
            /\ a # polls[pk].authority
                  => /\ r.err = IF OptionPda(pk, i) \in DOMAIN options
                                THEN "AccountAlreadyInUse"
                                ELSE "Unauthorized"
                     /\ AddOptionUnchanged(a, pk, i, l, h)
            /\ r.err = "Ok" => a = polls[pk].authority

\* before start_ts a call that the owner could make with success is refused
\* to another signer as Unauthorized, and the other signer's call on a
\* registered index is refused as AccountAlreadyInUse
C14_Witness ==
    \E a \in Signers, pk \in DOMAIN polls, i \in Indices, j \in Indices, l \in Labels :
        /\ a # polls[pk].authority
        /\ add_option_result(polls[pk].authority, pk, i, l, Hash(Canonical(l))).err = "Ok"
        /\ add_option_result(a, pk, i, l, Hash(Canonical(l))).err = "Unauthorized"
        /\ add_option_result(a, pk, j, l, Hash(Canonical(l))).err = "AccountAlreadyInUse"

\* C15: an add_option whose index names an option of the poll is rejected,
\* whoever calls it and whatever its label; it leaves that option (label,
\* plus_votes, minus_votes) and every other account as they were and creates
\* no LabelGuard, so that a fresh label sent with it is accepted from the
\* owner at every free index as long as now < start_ts.  Every option is
\* stored with the poll and the index of its address.
C15_IndexUnique ==
    /\ \A a \in Signers, pk \in DOMAIN polls, i \in Indices, l \in Labels :
          \A h \in LabelSeeds(l) :
              OptionPda(pk, i) \in DOMAIN options
                  => LET r == add_option_result(a, pk, i, l, h)
                         c == add_option_commit(r, pk, i, h)
                     IN
                     /\ r.err # "Ok"
                     /\ c.options[OptionPda(pk, i)] = options[OptionPda(pk, i)]
                     /\ AddOptionUnchanged(a, pk, i, l, h)
                     /\ DOMAIN c.guards = DOMAIN guards
                     /\ (/\ ~GuardExists(pk, l)
                         /\ h = Hash(Canonical(l))
                         /\ trim(l) # <<>>
                         /\ Len(trim(l)) <= MAX_LABEL
                         /\ now < polls[pk].start_ts)
                           => \A j \in Indices :
                                  OptionPda(pk, j) \notin DOMAIN options
                                      => add_option_result(polls[pk].authority, pk, j, l, h).err
                                             = "Ok"
    /\ \A ok \in DOMAIN options :
          /\ options[ok].poll = ok[1]
          /\ options[ok].index = ok[2]

\* before start_ts the owner sends a fresh label at a registered index and
\* is refused, and the same label is accepted at a free index
C15_Witness ==
    \E pk \in DOMAIN polls, i \in Indices, j \in Indices, l \in Labels :
        /\ OptionPda(pk, i) \in DOMAIN options
        /\ ~GuardExists(pk, l)
        /\ options[OptionPda(pk, i)].label # trim(l)
        /\ add_option_result(polls[pk].authority, pk, i, l, Hash(Canonical(l))).err
               = "AccountAlreadyInUse"
        /\ add_option_result(polls[pk].authority, pk, j, l, Hash(Canonical(l))).err = "Ok"

\* C16: in every reachable state, whatever the order in which the voters'
\* cast_vote calls on an option were executed, the option's plus_votes is
\* the number of receipts on it with sentiment +1 and its minus_votes the
\* number of receipts on it with sentiment -1.
C16_TalliesAreReceipts ==
    \A ok \in DOMAIN options :
        /\ options[ok].plus_votes
               = Cardinality({rk \in DOMAIN receipts :
                                 /\ OptionPda(rk[1], rk[2]) = ok
                                 /\ receipts[rk].sentiment = 1})
        /\ options[ok].minus_votes
               = Cardinality({rk \in DOMAIN receipts :
                                 /\ OptionPda(rk[1], rk[2]) = ok
                                 /\ receipts[rk].sentiment = -1})

\* two voters have voted +1 on the same option, and another option holds a
\* -1
C16_Witness ==
    \E o1 \in DOMAIN options, o2 \in DOMAIN options :
        /\ options[o1].plus_votes = 2
        /\ options[o2].minus_votes = 1

\* C17: with plus_credits and minus_credits anywhere up to 255, no cast_vote
\* fails with MathOverflow, used_plus and used_minus stay within 8 bits, and
\* m_next and 2 * m_next of the ratio gate stay within 16 bits.
C17_NoCreditOverflow ==
    /\ \A vk \in DOMAIN voters :
          /\ voters[vk].used_plus <= U8Max
          /\ voters[vk].used_minus <= U8Max
          /\ ~ratio_gate_overflow(voters[vk])
    /\ \A a \in Signers, pk \in DOMAIN polls, i \in CreditIndices, s \in Sentiments :
          LET r == cast_vote_result(a, pk, i, s)
              c == cast_vote_commit(r, a, pk, i)
          IN
          /\ r.err # "MathOverflow"
          /\ r.err = "Ok"
                => /\ c.voters[VoterPda(pk, a)].used_plus <= U8Max
                   /\ c.voters[VoterPda(pk, a)].used_minus <= U8Max

\* a voter's 255th positive vote has been cast on one of the two options
\* left, and a +1 on the other one is refused as OutOfPositiveCredits
C17_Witness ==
    \E a \in CreditVoters, pk \in DOMAIN polls, i \in {0, 1} :
        /\ UsedPlus(VoterPda(pk, a)) = U8Max
        /\ UsedMinus(VoterPda(pk, a)) = U8Max \div 2
        /\ ReceiptPda(pk, i, a) \in DOMAIN receipts
        /\ receipts[ReceiptPda(pk, i, a)].sentiment = 1
        /\ cast_vote_result(a, pk, 1 - i, 1).err = "OutOfPositiveCredits"

\* the calls on the numbers of I64Values whose exact result lies outside
\* -2^63 .. 2^63 - 1
C18_Overflows(operation_type, x, y) ==
    CASE operation_type = "Addition" ->
             <<x, y>> \in {<<I64_MIN, I64(-1)>>, <<I64(-1), I64_MIN>>, <<I64_MIN, I64_MIN>>,
                           <<I64_MAX, I64(1)>>, <<I64(1), I64_MAX>>, <<I64_MAX, I64_MAX>>}
      [] operation_type = "Subtraction" ->
             <<x, y>> \in {<<I64_MIN, I64(1)>>, <<I64_MIN, I64_MAX>>, <<I64(1), I64_MIN>>,
                           <<I64_MAX, I64_MIN>>, <<I64_MAX, I64(-1)>>}
      [] operation_type = "Multiplication" ->
             <<x, y>> \in {<<I64_MIN, I64(-1)>>, <<I64(-1), I64_MIN>>, <<I64_MIN, I64_MIN>>,
                           <<I64_MIN, I64_MAX>>, <<I64_MAX, I64_MIN>>, <<I64_MAX, I64_MAX>>}

C18_Call(operation_type, h, x, y) ==
    CASE operation_type = "Addition" -> Calculator_addition(h, x, y)
      [] operation_type = "Subtraction" -> Calculator_subtraction(h, x, y)
      [] operation_type = "Multiplication" -> Calculator_multiplication(h, x, y)

C18_Exact(operation_type, x, y) ==
    CASE operation_type = "Addition" -> wide_add(x, y)
      [] operation_type = "Subtraction" -> wide_sub(x, y)
      [] operation_type = "Multiplication" -> wide_mul(x, y)

\* C18: addition, subtraction and multiplication return Some(result) and
\* append one entry with their operands when the exact result fits in an
\* i64, and return None with the history unchanged when it does not;
\* repeat(i) returns None with the history unchanged when i is not an index
\* of the history, and otherwise appends a copy of entry i and returns the
\* result of that entry; every entry of the history recomputes without
\* overflow.
C18_HistoryRecordsSuccesses ==
    /\ \A k \in 1..Len(history) :
          perform(history[k].operation_type, history[k].first_num,
                  history[k].second_num).some
    /\ \A t \in OperationTypes, x \in I64Values, y \in I64Values :
          LET r == C18_Call(t, history, x, y)
              w == C18_Exact(t, x, y)
          IN
          IF C18_Overflows(t, x, y)
          THEN r.result = None /\ r.history = history
          ELSE /\ r.result = Some([hi |-> w.hi, lo |-> w.lo])
               /\ w.hi2 = 0
               /\ r.history = Append(history, Operation(x, y, t))
    /\ \A i \in 0..(MaxHistory + 1) :
          LET r == Calculator_repeat(history, i) IN
          IF i >= Len(history)
          THEN r.result = None /\ r.history = history
          ELSE /\ r.history = Append(history, history[i + 1])
               /\ r.result.some
               /\ r.result = perform(history[i + 1].operation_type,
                                     history[i + 1].first_num, history[i + 1].second_num)

\* the history holds -1 - MAX and its repetition, and the addition MAX + 1
\* returns None
C18_Witness ==
    /\ Len(history) = 2
    /\ history[1] = Operation(I64(-1), I64_MAX, "Subtraction")
    /\ history[2] = history[1]
    /\ Calculator_addition(history, I64_MAX, I64(1)).result = None
    /\ Calculator_repeat(history, 0).result = Some(I64_MIN)

\* the error of the earliest failing step of a cast_vote, in the order
\* the specification states: not started, closed or ended, sentiment,
\* receipt, credit rules
C19_StatedOrder(a, pk, i, s) ==
    LET poll == polls[pk]
        p == UsedPlus(VoterPda(pk, a))
        m == UsedMinus(VoterPda(pk, a))
    IN
    IF now < poll.start_ts THEN "VotingNotStarted"
    ELSE IF now > poll.end_ts \/ poll.ended THEN "VotingClosed"
    ELSE IF s \notin {1, -1} THEN "InvalidSentiment"
    ELSE IF ReceiptPda(pk, i, a) \in DOMAIN receipts THEN "AlreadyVotedThisOption"
    ELSE IF s = 1
         THEN IF p >= poll.plus_credits THEN "OutOfPositiveCredits" ELSE "Ok"
    ELSE IF p < 2 * (m + 1) THEN "InsufficientPositivesForNegative"
    ELSE IF m >= poll.minus_credits THEN "OutOfNegativeCredits"
    ELSE "Ok"

\* C19 as stated: a cast_vote on an option of a poll reports the error of
\* the earliest failing step in the stated order, VotingNotStarted before
\* VotingClosed also on an ended poll.
C19_ErrorOrderAsStated ==
    \A a \in Signers, pk \in DOMAIN polls, i \in Indices, s \in Sentiments :
        OptionPda(pk, i) \in DOMAIN options
            => cast_vote_result(a, pk, i, s).err = C19_StatedOrder(a, pk, i, s)

\* C19, amended: a cast_vote on an option of an ended poll gets VotingClosed
\* at every time, also before start_ts; on a poll that is not ended it
\* reports the error of the earliest failing step in the stated order
\* (the credit-record binding never fails).  A voter without positive
\* credit left who votes +1 on an option already voted on, inside the
\* window, gets AlreadyVotedThisOption; a -1 with used_plus = 0 on a poll
\* with minus_credits = 0, inside the window, gets
\* InsufficientPositivesForNegative.
C19_ErrorOrder ==
    \A a \in Signers, pk \in DOMAIN polls, i \in Indices, s \in Sentiments :
        OptionPda(pk, i) \in DOMAIN options
            => LET err == cast_vote_result(a, pk, i, s).err
                   poll == polls[pk]
                   open == poll.start_ts <= now /\ now <= poll.end_ts /\ ~poll.ended
               IN
               /\ err = IF poll.ended THEN "VotingClosed" ELSE C19_StatedOrder(a, pk, i, s)
               /\ (/\ open
                   /\ s = 1
                   /\ UsedPlus(VoterPda(pk, a)) = poll.plus_credits
                   /\ ReceiptPda(pk, i, a) \in DOMAIN receipts)
                     => err = "AlreadyVotedThisOption"
               /\ (/\ open
                   /\ s = -1
                   /\ UsedPlus(VoterPda(pk, a)) = 0
                   /\ poll.minus_credits = 0
                   /\ ReceiptPda(pk, i, a) \notin DOMAIN receipts)
                     => err = "InsufficientPositivesForNegative"

\* in the open window of a poll without negative credits one voter has
\* used up the positive credits and votes +1 again on the same option, and
\* a voter who has not voted sends a -1
C19_Witness ==
    \E a \in Signers, b \in Signers, pk \in DOMAIN polls, i \in Indices :
        /\ ~polls[pk].ended
        /\ polls[pk].minus_credits = 0
        /\ ReceiptPda(pk, i, a) \in DOMAIN receipts
        /\ UsedPlus(VoterPda(pk, a)) = polls[pk].plus_credits
        /\ cast_vote_result(a, pk, i, 1).err = "AlreadyVotedThisOption"
        /\ VoterPda(pk, b) \notin DOMAIN voters
        /\ cast_vote_result(b, pk, i, -1).err = "InsufficientPositivesForNegative"

\* C20: an add_option leaves every poll as it was except for the
\* options_count of the poll it names, and a cast_vote leaves every field of
\* every poll as it was: authority, poll_id, title, description,
\* plus_credits, minus_credits, start_ts and end_ts of a poll are never
\* changed by either; a poll carries the authority and the poll_id of its
\* address.
C20_PollImmutable ==
    /\ \A a \in Signers, pk \in DOMAIN polls, i \in Indices, l \in Labels :
          \A h \in LabelSeeds(l) :
              LET c == add_option_commit(add_option_result(a, pk, i, l, h), pk, i, h) IN
              /\ DOMAIN c.polls = DOMAIN polls
              /\ \A k \in DOMAIN polls :
                    c.polls[k] = IF k = pk
                                 THEN [polls[k] EXCEPT
                                          !.options_count = c.polls[k].options_count]
                                 ELSE polls[k]
    /\ \A a \in Signers, pk \in DOMAIN polls, i \in Indices, s \in Sentiments :
          cast_vote_commit(cast_vote_result(a, pk, i, s), a, pk, i).polls = polls
    /\ \A pk \in DOMAIN polls :
          /\ polls[pk].authority = pk[1]
          /\ polls[pk].poll_id = pk[2]

\* a poll with two registered options and a vote on record, on which a
\* further vote is accepted
C20_Witness ==
    \E a \in Signers, pk \in DOMAIN polls, i \in Indices :
        /\ polls[pk].options_count >= 2
        /\ Cardinality({ok \in DOMAIN options : ok[1] = pk}) >= 2
        /\ \E rk \in DOMAIN receipts : rk[1] = pk
        /\ cast_vote_result(a, pk, i, 1).err = "Ok"

\* C21: an accepted cast_vote of voter a on option i of poll pk with
\* sentiment s adds the receipt (pk, i, a) holding s, adds 1 to the
\* voter's counter for s (from 0 for a voter without a credit record) and
\* 1 to the option's tally for s, and leaves as they were: the voter's
\* other counter, the option's other tally, label and index, every other
\* option, every other credit record, every existing receipt and the
\* poll; an add_option leaves every existing option as it was and creates
\* its option with both tallies at 0.
C21_VoteFrame ==
    /\ \A a \in Signers, pk \in DOMAIN polls, i \in Indices, s \in {1, -1} :
          LET r == cast_vote_result(a, pk, i, s)
              c == cast_vote_commit(r, a, pk, i)
              vk == VoterPda(pk, a)
              ok == OptionPda(pk, i)
              rk == ReceiptPda(pk, i, a)
              dp == IF s = 1 THEN 1 ELSE 0
              dm == IF s = -1 THEN 1 ELSE 0
          IN
          r.err = "Ok"
              => /\ rk \notin DOMAIN receipts
                 /\ DOMAIN c.receipts = DOMAIN receipts \cup {rk}
                 /\ c.receipts[rk] = [poll |-> pk, voter |-> a,
                                      option_index |-> i, sentiment |-> s]
                 /\ \A k \in DOMAIN receipts : c.receipts[k] = receipts[k]
                 /\ DOMAIN c.options = DOMAIN options
                 /\ c.options[ok] = [options[ok] EXCEPT !.plus_votes = @ + dp,
                                                        !.minus_votes = @ + dm]
                 /\ \A k \in DOMAIN options \ {ok} : c.options[k] = options[k]
                 /\ DOMAIN c.voters = DOMAIN voters \cup {vk}
                 /\ c.voters[vk] = [poll |-> pk, voter |-> a,
                                    used_plus |-> UsedPlus(vk) + dp,
                                    used_minus |-> UsedMinus(vk) + dm]
                 /\ \A k \in DOMAIN voters \ {vk} : c.voters[k] = voters[k]
                 /\ c.polls = polls
    /\ \A a \in Signers, pk \in DOMAIN polls, i \in Indices, l \in Labels :
          \A h \in LabelSeeds(l) :
              LET c == add_option_commit(add_option_result(a, pk, i, l, h), pk, i, h) IN
              /\ \A k \in DOMAIN options : c.options[k] = options[k]
              /\ \A k \in DOMAIN c.options \ DOMAIN options :
                    c.options[k].plus_votes = 0 /\ c.options[k].minus_votes = 0

\* a -1 is accepted on an option that already holds a +1 of the other
\* voter
C21_Witness ==
    \E a \in Signers, b \in Signers, pk \in DOMAIN polls, i \in Indices :
        /\ a # b
        /\ ReceiptPda(pk, i, b) \in DOMAIN receipts
        /\ options[OptionPda(pk, i)].plus_votes = 1
        /\ cast_vote_result(a, pk, i, -1).err = "Ok"

\* C22: every voter credit record has used_plus >= 2 * used_minus, hence
\* used_minus <= plus_credits \div 2 whatever minus_credits is; a -1 of a
\* voter with used_plus < 2, in particular of a voter who has not voted in
\* the poll yet, is never accepted.
C22_PositivesCoverNegatives ==
    /\ \A vk \in DOMAIN voters :
          /\ voters[vk].used_plus >= 2 * voters[vk].used_minus
          /\ voters[vk].used_minus <= polls[voters[vk].poll].plus_credits \div 2
    /\ \A a \in Signers, pk \in DOMAIN polls, i \in Indices :
          UsedPlus(VoterPda(pk, a)) < 2
              => /\ cast_vote_result(a, pk, i, -1).err # "Ok"
                 /\ UsedMinus(VoterPda(pk, a)) = 0

\* in a poll with one positive and one negative credit a voter has cast
\* the +1, and the -1 on another option, inside the window and with the
\* negative credit unused, is refused by the gate
C22_Witness ==
    \E a \in Signers, pk \in DOMAIN polls, i \in Indices :
        /\ polls[pk].plus_credits = 1
        /\ polls[pk].minus_credits = 1
        /\ UsedPlus(VoterPda(pk, a)) = 1
        /\ UsedMinus(VoterPda(pk, a)) = 0
        /\ ReceiptPda(pk, i, a) \notin DOMAIN receipts
        /\ cast_vote_result(a, pk, i, -1).err = "InsufficientPositivesForNegative"

RECURSIVE C23_Sum(_, _)
C23_Sum(f, S) ==
    IF S = {} THEN 0
    ELSE LET k == CHOOSE x \in S : TRUE IN f[k] + C23_Sum(f, S \ {k})

C23_Receipts(pk, a, s) ==
    {rk \in DOMAIN receipts : rk[1] = pk /\ rk[3] = a /\ receipts[rk].sentiment = s}

\* C23: in every reachable state, for every poll: a voter's used_plus
\* (used_minus) is the number of the voter's receipts in the poll with
\* sentiment +1 (-1); a credit record exists only for a voter who holds a
\* receipt in the poll, and every receipt has its voter's credit record;
\* the plus_votes (minus_votes) of the poll's options add up to the
\* used_plus (used_minus) of its voters; a voter holds at most
\* plus_credits + minus_credits receipts in the poll.
C23_Consistent ==
    /\ \A vk \in DOMAIN voters :
          /\ vk = VoterPda(voters[vk].poll, voters[vk].voter)
          /\ voters[vk].used_plus = Cardinality(C23_Receipts(vk[1], vk[2], 1))
          /\ voters[vk].used_minus = Cardinality(C23_Receipts(vk[1], vk[2], -1))
          /\ C23_Receipts(vk[1], vk[2], 1) \cup C23_Receipts(vk[1], vk[2], -1) # {}
    /\ \A rk \in DOMAIN receipts :
          /\ VoterPda(rk[1], rk[3]) \in DOMAIN voters
          /\ receipts[rk].sentiment \in {1, -1}
    /\ \A pk \in DOMAIN polls :
          LET os == {ok \in DOMAIN options : ok[1] = pk}
              vs == {vk \in DOMAIN voters : vk[1] = pk}
          IN
          /\ C23_Sum([ok \in os |-> options[ok].plus_votes], os)
                 = C23_Sum([vk \in vs |-> voters[vk].used_plus], vs)
          /\ C23_Sum([ok \in os |-> options[ok].minus_votes], os)
                 = C23_Sum([vk \in vs |-> voters[vk].used_minus], vs)
          /\ \A a \in Signers :
                Cardinality({rk \in DOMAIN receipts : rk[1] = pk /\ rk[3] = a})
                    <= polls[pk].plus_credits + polls[pk].minus_credits

\* two voters hold receipts in a poll, one of them two +1 and one -1, and a
\* vote of the other has been refused by the credit rules
C23_Witness ==
    \E pk \in DOMAIN polls, a \in Signers, b \in Signers, i \in Indices :
        /\ a # b
        /\ UsedPlus(VoterPda(pk, a)) = 2
        /\ UsedMinus(VoterPda(pk, a)) = 1
        /\ UsedPlus(VoterPda(pk, b)) = 1
        /\ cast_vote_result(b, pk, i, -1).err = "InsufficientPositivesForNegative"

====
